---- MODULE Spec2Model ----
(***************************************************************************)
(* TradeHero trading journal (Django app "trades"): the trade ledger, the  *)
(* CSV import view, the trade and strategy views (trade_new, trade_edit,   *)
(* trade_delete, update_trade_strategy, update_trade_note, strategy_new,   *)
(* strategy_delete), stats_view, Trade.save / Trade.computed_pnl and the   *)
(* database constraints of the Trade table; the date parser of utils.py;  *)
(* accounts and profiles (register, the post_save and post_migrate         *)
(* handlers); the coaching views (choose_coach, coach_respond_request,     *)
(* trade_detail, coach_student_trades, add_trade_comment) and the upload   *)
(* of screenshots.  A view is one atomic step, except the import, whose    *)
(* row loop commits row by row, and the profile and pairing handlers,      *)
(* which take one step per database operation.                             *)
(*                                                                         *)
(* Numbers are integers in the smallest unit of the column (a price of 12  *)
(* is twelve price units).  A Python value carries its run-time type       *)
(* ("float", "int", "Decimal") because the arithmetic of computed_pnl      *)
(* depends on it.  Timestamps are ticks; a calendar day is TicksPerDay     *)
(* ticks long.  An absent value (None / NULL) is the empty tuple.          *)
(***************************************************************************)
EXTENDS Integers, Sequences, FiniteSets, TLC

VARIABLES upload, ledger, nextId, strategies, nextStrategyId, req, messages,
          accounts, profiles, coach_requests, comments, screenshots, shown,
          proc, response

\* the tables and outputs of the accounts, coaching and screenshot features
community ==
    <<accounts, profiles, coach_requests, comments, screenshots, shown, proc,
      response>>

vars ==
    <<upload, ledger, nextId, strategies, nextStrategyId, req, messages,
      accounts, profiles, coach_requests, comments, screenshots, shown, proc,
      response>>

--------------------------------------------------------------------------
(* Bounds of the model *)

MaxRows == 2

MaxRequests == 2

MaxStrategies == 1

TicksPerDay == 2

\* trades entered through the trade form
MaxTrades == 1

Users == {"u1", "u2"}

\* the accounts with is_superuser set
Superusers == {"u2"}

\* request.user of a client that is not logged in
AnonymousUser == "anonymous"

\* who can send a request
Clients == Users \cup {AnonymousUser}

\* @login_required: an anonymous request is redirected to the login page
login_required(u) == u # AnonymousUser

\* one slot per request the server handles; slots are taken in order
Requests == 1..MaxRequests

None == <<>>

Some(v) == <<v>>

--------------------------------------------------------------------------
(* Python values and the arithmetic computed_pnl performs on them *)

PyFloat(v) == [ty |-> "float", v |-> v]

PyInt(v) == [ty |-> "int", v |-> v]

PyDecimal(v) == [ty |-> "Decimal", v |-> v]

TypeError == [ty |-> "TypeError", v |-> 0]

\* float op Decimal is unsupported in Python; int mixes with both.
PyResultType(a, b) ==
    IF a.ty = "TypeError" \/ b.ty = "TypeError" THEN "TypeError"
    ELSE IF a.ty = b.ty THEN a.ty
    ELSE IF a.ty = "int" THEN b.ty
    ELSE IF b.ty = "int" THEN a.ty
    ELSE "TypeError"

PySub(a, b) ==
    LET ty == PyResultType(a, b)
    IN  IF ty = "TypeError" THEN TypeError ELSE [ty |-> ty, v |-> a.v - b.v]

PyMul(a, b) ==
    LET ty == PyResultType(a, b)
    IN  IF ty = "TypeError" THEN TypeError ELSE [ty |-> ty, v |-> a.v * b.v]

\* x or Decimal("0")
PyOrZero(x) == IF x = None \/ x[1].v = 0 THEN PyDecimal(0) ELSE x[1]

--------------------------------------------------------------------------
(* Trade model: computed_pnl, save, table constraints *)

\* Trade.computed_pnl
computed_pnl(t) ==
    IF t.exit_price = None \/ t.entry_price = None \/ t.quantity = None
    THEN PyDecimal(0)
    ELSE LET direction == IF t.trade_type = "LONG" THEN PyDecimal(1)
                          ELSE PyDecimal(0 - 1)
         IN  PySub(PyMul(PyMul(PySub(t.exit_price[1], t.entry_price[1]),
                               t.quantity[1]), direction),
                   PyOrZero(t.commission))

\* save that leaves the duration it was given
SaveDurationGiven(t) == t.duration

\* Trade.save, first statement: duration from the two timestamps
SaveDuration(t) ==
    IF t.entry_datetime # None /\ t.exit_datetime # None
    THEN Some(t.exit_datetime[1] - t.entry_datetime[1])
    ELSE t.duration

\* Trade.save, second statement: does it call computed_pnl ?
SaveAlignsPnl(t) ==
    /\ t.exit_price # None
    /\ (t.profit_loss = None \/ t.profit_loss[1].v = 0)

\* DecimalField: what the column holds for a Python number
ToDecimalColumn(x) == IF x = None THEN None ELSE Some(PyDecimal(x[1].v))

\* UniqueConstraint uniq_user_importhash, condition ~Q(import_hash="")
UniqUserImportHashOk(t, rows) ==
    t.import_hash = "" \/
    \A o \in rows : o.id = t.id \/ o.user # t.user \/ o.import_hash # t.import_hash

\* CheckConstraint chk_trade_qty_gt_0
ChkQtyGt0(t) == t.quantity # None /\ t.quantity[1].v > 0

\* CheckConstraint trade_type_valid
ChkTradeTypeValid(t) == t.trade_type \in {"LONG", "SHORT"}

\* chk_trade_exit_after_entry not enforced
ChkExitAfterEntryOff(t) == TRUE

\* CheckConstraint chk_trade_exit_after_entry
ChkExitAfterEntry(t) ==
    \/ t.exit_datetime = None
    \/ t.entry_datetime = None
    \/ t.exit_datetime[1] >= t.entry_datetime[1]

\* NOT NULL columns of the table that an instance can leave empty
ChkNotNull(t) == t.entry_price # None /\ t.profit_loss # None /\ t.commission # None

\* FOREIGN KEY strategy_id -> Strategy.id
FkStrategyOk(t) ==
    t.strategy = None \/ \E s \in strategies : s.id = t.strategy[1]

TradeConstraintsOk(t, rows) ==
    /\ ChkNotNull(t)
    /\ FkStrategyOk(t)
    /\ UniqUserImportHashOk(t, rows)
    /\ ChkQtyGt0(t)
    /\ ChkTradeTypeValid(t)
    /\ ChkExitAfterEntry(t)

\* Trade.save on instance t against table rows: the exception raised, or
\* the row written; pnl_call is the value computed_pnl returned, if called
Save(t, rows) ==
    LET called == SaveAlignsPnl(t)
        pl == IF called THEN Some(computed_pnl(t)) ELSE t.profit_loss
        row == [t EXCEPT !.duration = SaveDuration(t),
                         !.entry_price = ToDecimalColumn(t.entry_price),
                         !.exit_price = ToDecimalColumn(t.exit_price),
                         !.quantity = ToDecimalColumn(t.quantity),
                         !.commission = ToDecimalColumn(t.commission),
                         !.profit_loss = ToDecimalColumn(pl)]
        call == IF called THEN Some([args |-> t, result |-> pl[1]]) ELSE None
    IN  IF called /\ pl[1].ty = "TypeError"
        THEN [raised |-> "TypeError", row |-> None, pnl_call |-> call]
        ELSE IF ~TradeConstraintsOk(row, rows)
        THEN [raised |-> "IntegrityError", row |-> None, pnl_call |-> call]
        ELSE [raised |-> "", row |-> Some(row), pnl_call |-> call]

--------------------------------------------------------------------------
(* CSV text: cells, their parsers, and the uploaded files *)

\* str.strip() on the texts that occur in the files
StripText(s) ==
    CASE s = " SHORT " -> "SHORT"
      [] s = " nq " -> "nq"
      [] s = " Symbol " -> "Symbol"
      [] OTHER -> s

\* A date-time cell: the layout of its text, the instant it denotes and
\* whether broker markers BP/EP decorate it.
\*   "frac"  = YYYY-MM-DD HH:MM:SS.ffffff     "plain" = YYYY-MM-DD HH:MM:SS
\*   "bad"   = neither
DateCell(fmt, t, deco) == [fmt |-> fmt, t |-> t, deco |-> deco]

\* clean_datetime_str: removes BP / EP, trims and collapses blanks
clean_datetime_str(c) == [c EXCEPT !.deco = FALSE]

\* datetime.strptime(cell, layout): the instant, or None for ValueError
Strptime(c, layout) ==
    IF ~c.deco /\ c.fmt = layout THEN Some(c.t) ELSE None

\* The two nested try blocks of import_csv: both cells with the fractional
\* layout, else both with the plain layout, else the row is skipped.
ParseRowDates(entry, exit) ==
    LET e1 == Strptime(entry, "frac")
        x1 == Strptime(exit, "frac")
        e2 == Strptime(entry, "plain")
        x2 == Strptime(exit, "plain")
    IN  IF e1 # None /\ x1 # None THEN [ok |-> TRUE, entry |-> e1, exit |-> x1]
        ELSE IF e2 # None /\ x2 # None THEN [ok |-> TRUE, entry |-> e2, exit |-> x2]
        ELSE [ok |-> FALSE, entry |-> None, exit |-> None]

\* utils.parse_custom_datetime reads further layouts of a date text:
\*   "iso_z" = YYYY-MM-DDTHH:MM:SSZ       "ymd_slash" = YYYY/MM/DD HH:MM:SS
\*   "dmy"   = DD/MM/YYYY HH:MM:SS        "date"      = YYYY-MM-DD
\*   "dmy_date" = DD/MM/YYYY              "epoch"     = digits (seconds)
\*   "empty" = the empty text             "blank"     = blanks only
\* _KNOWN_DT_FORMATS, in the order of the tuple
KNOWN_DT_FORMATS == <<"frac", "plain", "ymd_slash", "dmy", "date", "dmy_date">>

\* _clean_str: strip, then remove BP / EP and collapse blanks
clean_str(c) ==
    IF c.fmt \in {"empty", "blank"} THEN [c EXCEPT !.fmt = "empty"]
    ELSE [c EXCEPT !.deco = FALSE]

\* _try_parse_epoch: float(s), then datetime.fromtimestamp; None on failure
try_parse_epoch(c) ==
    IF ~c.deco /\ c.fmt = "epoch" THEN Some(c.t) ELSE None

\* _try_parse_iso: a trailing Z becomes +00:00, then datetime.fromisoformat,
\* which reads the date alone and the date and time of day joined by one
\* character, with or without fractional seconds and offset
try_parse_iso(c) ==
    IF ~c.deco /\ c.fmt \in {"frac", "plain", "iso_z", "date"} THEN Some(c.t)
    ELSE None

\* the loop "for fmt in _KNOWN_DT_FORMATS" from position i on
RECURSIVE TryKnownFormats(_, _)
TryKnownFormats(c, i) ==
    IF i > Len(KNOWN_DT_FORMATS) THEN None
    ELSE IF Strptime(c, KNOWN_DT_FORMATS[i]) # None
         THEN Strptime(c, KNOWN_DT_FORMATS[i])
         ELSE TryKnownFormats(c, i + 1)

\* parse_custom_datetime on a text: the instant, or None
parse_custom_datetime(value) ==
    LET s == clean_str(value)
    IN  IF s.fmt = "empty" THEN None
        ELSE IF try_parse_epoch(s) # None THEN try_parse_epoch(s)
        ELSE IF try_parse_iso(s) # None THEN try_parse_iso(s)
        ELSE TryKnownFormats(s, 1)

\* datetime.date()
DateOf(t) == t \div TicksPerDay

\* InDateRange with the end_date test left out
InDateRangeNoEnd(entry, start_date, end_date) ==
    ~(start_date # None /\ DateOf(entry) < start_date[1])

\* The two date-filter tests of import_csv: TRUE when the row is kept
InDateRange(entry, start_date, end_date) ==
    /\ ~(start_date # None /\ DateOf(entry) < start_date[1])
    /\ ~(end_date # None /\ DateOf(entry) > end_date[1])

\* A numeric cell: "int" = integer literal, "dec" = literal with a decimal
\* point, "blank" = empty, "text" = not a number.  v is the number denoted,
\* in units of the column.
NumCell(kind, v) == [kind |-> kind, v |-> v]

\* float(cell.strip()); None stands for ValueError
ParseFloat(c) == IF c.kind \in {"int", "dec"} THEN Some(PyFloat(c.v)) ELSE None

\* int(cell.strip()); None stands for ValueError
ParseInt(c) == IF c.kind = "int" THEN Some(PyInt(c.v)) ELSE None

\* float(commission_str.strip()) if commission_str.strip() else 0.0
ParseCommission(c) == IF c.kind = "blank" THEN Some(PyFloat(0)) ELSE ParseFloat(c)

required_headers ==
    <<"Symbol", "Trade Type", "Entry DateTime", "Exit DateTime",
      "Entry Price", "Exit Price", "Trade Quantity", "Profit/Loss (C)">>

\* header_map keys after h.strip()
HeaderMap(headers) == {StripText(headers[i]) : i \in 1..Len(headers)}

\* The loop over required_headers: index of the first one missing, 0 if none
FirstMissingHeader(headers) ==
    LET miss == {i \in 1..Len(required_headers) :
                    required_headers[i] \notin HeaderMap(headers)}
    IN  IF miss = {} THEN 0 ELSE CHOOSE i \in miss : \A j \in miss : i <= j

--------------------------------------------------------------------------
(* The uploads the model draws from *)

Tick(day, offset) == day * TicksPerDay + offset

HeaderFull ==
    <<" Symbol ", "Trade Type", "Entry DateTime", "Exit DateTime", "Entry Price",
      "Exit Price", "Trade Quantity", "Profit/Loss (C)", "Commission (C)">>

\* the seven columns the specification requires, and nothing else
HeaderSeven ==
    <<"Symbol", "Trade Type", "Entry DateTime", "Exit DateTime", "Entry Price",
      "Exit Price", "Trade Quantity">>

\* Symbol and Exit Price absent
HeaderMissingTwo ==
    <<"Trade Type", "Entry DateTime", "Exit DateTime", "Entry Price",
      "Trade Quantity", "Profit/Loss (C)">>

HeaderEmpty == <<>>

\* the eight columns the view requires, without the optional Commission (C)
HeaderNoCommission ==
    <<"Symbol", "Trade Type", "Entry DateTime", "Exit DateTime", "Entry Price",
      "Exit Price", "Trade Quantity", "Profit/Loss (C)">>

\* a closed LONG trade on day 2, BP/EP-decorated timestamps
RowLong ==
    [n |-> 9, Symbol |-> "ES", TradeType |-> "LONG",
     Entry |-> DateCell("plain", Tick(2, 1), TRUE),
     Exit |-> DateCell("plain", Tick(3, 0), TRUE),
     EntryPrice |-> NumCell("dec", 10), ExitPrice |-> NumCell("dec", 12),
     Quantity |-> NumCell("int", 2), ProfitLoss |-> NumCell("dec", 4),
     Commission |-> NumCell("blank", 0)]

\* a closed SHORT trade on day 3, fractional seconds, padded cells
RowShort ==
    [n |-> 9, Symbol |-> " nq ", TradeType |-> " SHORT ",
     Entry |-> DateCell("frac", Tick(3, 0), FALSE),
     Exit |-> DateCell("frac", Tick(3, 1), FALSE),
     EntryPrice |-> NumCell("dec", 12), ExitPrice |-> NumCell("int", 10),
     Quantity |-> NumCell("int", 1), ProfitLoss |-> NumCell("dec", 1),
     Commission |-> NumCell("dec", 1)]

RowBadDate == [RowLong EXCEPT !.Exit = DateCell("bad", Tick(3, 0), FALSE)]

RowBadDecimal == [RowLong EXCEPT !.EntryPrice = NumCell("text", 0)]

RowTooShort == [RowLong EXCEPT !.n = 3]

\* Trade Type that is neither LONG nor SHORT, entered on day 1
RowBuy ==
    [RowLong EXCEPT !.TradeType = "BUY",
                    !.Entry = DateCell("plain", Tick(1, 0), FALSE)]

\* break-even trade: the Profit/Loss (C) column holds 0
RowZeroPnl ==
    [RowLong EXCEPT !.ExitPrice = NumCell("dec", 10),
                    !.ProfitLoss = NumCell("int", 0)]

RowZeroQty == [RowLong EXCEPT !.Quantity = NumCell("int", 0)]

RowPool ==
    {RowLong, RowShort, RowBadDate, RowBadDecimal, RowTooShort, RowBuy,
     RowZeroPnl, RowZeroQty}

RowSeqs == UNION {[1..k -> RowPool] : k \in 0..MaxRows}

SmallFileBytes == 1024

MaxUploadBytes == 5 * 1024 * 1024

Files ==
    [size : {SmallFileBytes}, headers : {HeaderFull}, rows : RowSeqs]
    \cup [size : {MaxUploadBytes + 1}, headers : {HeaderFull},
          rows : {<<RowLong>>}]
    \cup [size : {SmallFileBytes},
          headers : {HeaderSeven, HeaderMissingTwo, HeaderEmpty},
          rows : {<<RowLong>>}]
    \cup [size : {SmallFileBytes}, headers : {HeaderNoCommission},
          rows : {<<RowShort>>}]

FilterDates == {None, Some(2)}

\* rows entered on day 1, day 2 (after midnight) and day 3
FilterRowSeqs == UNION {[1..k -> {RowBuy, RowLong, RowShort}] : k \in 1..MaxRows}

\* every file without a date filter; the files whose rows spread over three
\* days with every combination of start_date and end_date
Uploads ==
    [file : Files, start_date : {None}, end_date : {None}]
    \cup [file : [size : {SmallFileBytes}, headers : {HeaderFull},
                  rows : FilterRowSeqs],
          start_date : FilterDates, end_date : FilterDates]

--------------------------------------------------------------------------
(* State *)

\* the accounts of the coaching features: a third one next to Users
Members == Users \cup {"u3"}

\* auth_user.id, in the order of registration
UserNo(u) == CASE u = "u1" -> 1 [] u = "u2" -> 2 [] OTHER -> 3

\* requests and management commands served at the same time by the views
\* that are modelled one database operation at a time
MaxHandlers == 2

Handlers == 1..MaxHandlers

\* Profile(user=u) with the defaults of the model
NewProfile(id, u) == [id |-> id, user |-> u, is_coach |-> FALSE, coach |-> None]

IdleHandler ==
    [pc |-> "idle", view |-> "", user |-> "", coach |-> "", req_id |-> 0,
     answer |-> "", to_create |-> {}, outcome |-> ""]

\* every user of Users is registered and has the profile the signal made;
\* no coach request, comment or screenshot is stored and nothing was shown
InitCommunity ==
    /\ accounts = Users
    /\ profiles = {NewProfile(UserNo(u), u) : u \in Users}
    /\ coach_requests = {}
    /\ comments = {}
    /\ screenshots = {}
    /\ shown = {}
    /\ proc = [h \in Handlers |-> IdleHandler]
    /\ response = None

IdleRequest ==
    [pc |-> "idle", user |-> "", strategy |-> None, idx |-> 0,
     trades_count |-> 0, raised |-> "", pnl_call |-> None]

Init ==
    /\ upload \in Uploads
    /\ ledger = {}
    /\ nextId = 1
    /\ strategies = {}
    /\ nextStrategyId = 1
    /\ req = [r \in Requests |-> IdleRequest]
    /\ messages = [u \in Users |-> <<>>]
    /\ InitCommunity

Message(level, text, header, count) ==
    [level |-> level, text |-> text, header |-> header, count |-> count]

OwnStrategies(u) == {s.id : s \in {x \in strategies : x.user = u}}

--------------------------------------------------------------------------
(* import_csv *)

\* The body of the row loop up to Trade.objects.create: the instance to
\* create, or None when the row is passed over with "continue"
RowInstance(row, headers, start_date, end_date, user, strategy, id) ==
    IF row.n = 0 \/ row.n < Len(headers) THEN None
    ELSE
    LET dates == ParseRowDates(clean_datetime_str(row.Entry),
                               clean_datetime_str(row.Exit))
        entry_price == ParseFloat(row.EntryPrice)
        exit_price == ParseFloat(row.ExitPrice)
        quantity == ParseInt(row.Quantity)
        profit_loss == ParseFloat(row.ProfitLoss)
        commission == IF "Commission (C)" \in HeaderMap(headers)
                      THEN ParseCommission(row.Commission)
                      ELSE ParseCommission(NumCell("blank", 0))
    IN  IF ~dates.ok THEN None
        ELSE IF ~InDateRange(dates.entry[1], start_date, end_date) THEN None
        ELSE IF None \in {entry_price, exit_price, quantity, profit_loss, commission}
        THEN None
        ELSE Some([id |-> id, user |-> user, strategy |-> strategy,
                   symbol |-> StripText(row.Symbol),
                   trade_type |-> StripText(row.TradeType),
                   entry_datetime |-> dates.entry, exit_datetime |-> dates.exit,
                   entry_price |-> entry_price, exit_price |-> exit_price,
                   quantity |-> quantity, profit_loss |-> profit_loss,
                   commission |-> commission, note |-> "", duration |-> None,
                   import_hash |-> ""])

\* POST up to the row loop: form validation, header checks
ImportBegin(w, u, strat) ==
    /\ req[w].pc = "idle"
    /\ \A r \in Requests : r < w => req[r].pc # "idle"
    /\ strat \in {None} \cup {Some(id) : id \in OwnStrategies(u)}
    /\ LET headers == upload.file.headers
           missing == FirstMissingHeader(headers)
           begun == [IdleRequest EXCEPT !.user = u, !.strategy = strat]
       IN  IF headers = <<>>
           THEN /\ req' = [req EXCEPT ![w] = [begun EXCEPT !.pc = "done"]]
                /\ messages' = [messages EXCEPT ![u] =
                       Append(@, Message("error", "no_headers", "", 0))]
           ELSE IF missing # 0
           THEN /\ req' = [req EXCEPT ![w] = [begun EXCEPT !.pc = "done"]]
                /\ messages' = [messages EXCEPT ![u] =
                       Append(@, Message("error", "missing_header",
                                         required_headers[missing], 0))]
           ELSE /\ req' = [req EXCEPT ![w] = [begun EXCEPT !.pc = "loop"]]
                /\ UNCHANGED messages
    /\ UNCHANGED <<upload, ledger, nextId, strategies, nextStrategyId>>
    /\ UNCHANGED community

\* One iteration of "for row in io_string"
ImportRow(w) ==
    /\ req[w].pc = "loop"
    /\ req[w].idx < Len(upload.file.rows)
    /\ LET row == upload.file.rows[req[w].idx + 1]
           inst == RowInstance(row, upload.file.headers, upload.start_date,
                               upload.end_date, req[w].user, req[w].strategy,
                               nextId)
       IN  IF inst = None
           THEN /\ req' = [req EXCEPT ![w].idx = @ + 1]
                /\ UNCHANGED <<ledger, nextId>>
           ELSE LET saved == Save(inst[1], ledger)
                IN  IF saved.raised # ""
                    THEN /\ req' = [req EXCEPT ![w].pc = "failed",
                                               ![w].raised = saved.raised,
                                               ![w].pnl_call = saved.pnl_call]
                         /\ UNCHANGED <<ledger, nextId>>
                    ELSE /\ ledger' = ledger \cup {saved.row[1]}
                         /\ nextId' = nextId + 1
                         /\ req' = [req EXCEPT ![w].idx = @ + 1,
                                               ![w].trades_count = @ + 1,
                                               ![w].pnl_call = saved.pnl_call]
    /\ UNCHANGED <<upload, strategies, nextStrategyId, messages>>
    /\ UNCHANGED community

\* After the loop: the success message and the redirect
ImportEnd(w) ==
    /\ req[w].pc = "loop"
    /\ req[w].idx = Len(upload.file.rows)
    /\ req' = [req EXCEPT ![w].pc = "done"]
    /\ messages' = [messages EXCEPT ![req[w].user] =
           Append(@, Message("success", "imported", "", req[w].trades_count))]
    /\ UNCHANGED <<upload, ledger, nextId, strategies, nextStrategyId>>
    /\ UNCHANGED community

--------------------------------------------------------------------------
(* strategy_new *)

StrategyNew(u) ==
    /\ nextStrategyId <= MaxStrategies
    /\ strategies' = strategies \cup {[id |-> nextStrategyId, user |-> u]}
    /\ nextStrategyId' = nextStrategyId + 1
    /\ UNCHANGED <<upload, ledger, nextId, req, messages>>
    /\ UNCHANGED community

--------------------------------------------------------------------------
(* Specifications *)

Next ==
    \/ \E w \in Requests, u \in Users, strat \in {None} \cup {Some(i) : i \in 1..MaxStrategies} :
          ImportBegin(w, u, strat)
    \/ \E w \in Requests : ImportRow(w)
    \/ \E w \in Requests : ImportEnd(w)
    \/ \E u \in Users : StrategyNew(u)

Spec == Init /\ [][Next]_vars

\* A deployment that serves one request at a time: an import begins only
\* when no other import is inside its row loop
SequentialBegin(w, u, strat) ==
    /\ \A r \in Requests : req[r].pc # "loop"
    /\ ImportBegin(w, u, strat)

NextSeq ==
    \/ \E w \in Requests, u \in Users, strat \in {None} \cup {Some(i) : i \in 1..MaxStrategies} :
          SequentialBegin(w, u, strat)
    \/ \E w \in Requests : ImportRow(w)
    \/ \E w \in Requests : ImportEnd(w)
    \/ \E u \in Users : StrategyNew(u)

SpecSeq == Init /\ [][NextSeq]_vars

\* Imports of files whose date cells cover the layouts of the date parser
DateLayouts ==
    {"frac", "plain", "iso_z", "ymd_slash", "dmy", "date", "dmy_date",
     "epoch", "empty", "blank", "bad"}

\* the instant a text of the layout denotes on the given day: a date
\* without time of day is midnight
LayoutTick(layout, day, offset) ==
    IF layout \in {"date", "dmy_date"} THEN Tick(day, 0) ELSE Tick(day, offset)

\* RowLong with its two date cells written in the given layouts
DateRow(entry_layout, exit_layout, deco) ==
    [RowLong EXCEPT !.Entry = DateCell(entry_layout, LayoutTick(entry_layout, 2, 1), deco),
                    !.Exit = DateCell(exit_layout, LayoutTick(exit_layout, 3, 0), deco)]

DateRowPool ==
    {DateRow(a, b, deco) : a \in DateLayouts, b \in DateLayouts, deco \in BOOLEAN}

DateUploads ==
    [file : [size : {SmallFileBytes}, headers : {HeaderFull},
             rows : {<<r>> : r \in DateRowPool}],
     start_date : {None}, end_date : {None}]

InitDates ==
    /\ upload \in DateUploads
    /\ ledger = {}
    /\ nextId = 1
    /\ strategies = {}
    /\ nextStrategyId = 1
    /\ req = [r \in Requests |-> IdleRequest]
    /\ messages = [u \in Users |-> <<>>]
    /\ InitCommunity

SpecDates == InitDates /\ [][NextSeq]_vars

--------------------------------------------------------------------------
(* TradeForm and the views that save a trade outside the CSV import *)

\* cleaned_data of a TradeForm (every number a Decimal); the strategy field
\* is submitted next to it
TradeFormData(trade_type, entry, exit, entry_price, exit_price, quantity, profit_loss, commission, duration) ==
    [symbol |-> "ES", trade_type |-> trade_type,
     entry_datetime |-> entry, exit_datetime |-> exit,
     entry_price |-> Some(PyDecimal(entry_price)),
     exit_price |-> IF exit_price = None THEN None
                    ELSE Some(PyDecimal(exit_price[1])),
     quantity |-> Some(PyDecimal(quantity)),
     profit_loss |-> Some(PyDecimal(profit_loss)),
     commission |-> Some(PyDecimal(commission)),
     note |-> "", duration |-> duration]

\* LONG 10 -> 12, quantity 2, commission 1, entered on day 2 and closed on
\* day 3, profit_loss left at 0
FormClosedLong ==
    TradeFormData("LONG", Some(Tick(2, 1)), Some(Tick(3, 0)), 10, Some(12), 2,
                  0, 1, None)

\* the same trade with a profit_loss and a duration typed in by hand
FormTypedPnl ==
    TradeFormData("LONG", Some(Tick(2, 1)), Some(Tick(3, 0)), 10, Some(12), 2,
                  5, 1, Some(7))

\* SHORT 10 -> 11 closed on day 1: price moved against the trade, the
\* profit_loss typed in says +2
FormShortTypedWin ==
    TradeFormData("SHORT", Some(Tick(1, 0)), Some(Tick(1, 1)), 10, Some(11), 1,
                  2, 0, None)

\* a trade still open: no exit price, no exit timestamp
FormOpen ==
    TradeFormData("LONG", Some(Tick(3, 0)), None, 10, None, 1, 0, 0, None)

\* exit timestamp before the entry timestamp
FormExitBeforeEntry ==
    TradeFormData("LONG", Some(Tick(3, 0)), Some(Tick(2, 1)), 10, Some(12), 1,
                  0, 0, None)

FormZeroQty ==
    TradeFormData("LONG", Some(Tick(2, 1)), Some(Tick(3, 0)), 10, Some(12), 0,
                  0, 0, None)

FormBadType ==
    TradeFormData("BUY", Some(Tick(2, 1)), Some(Tick(3, 0)), 10, Some(12), 1,
                  0, 0, None)

FormPool ==
    {FormClosedLong, FormTypedPnl, FormShortTypedWin, FormOpen,
     FormExitBeforeEntry, FormZeroQty, FormBadType}

NotePool == {"", "note"}

\* TradeForm whose strategy choice is any existing strategy
TradeFormValidAnyOwner(form, strat, u) ==
    /\ IF strat = None THEN TRUE ELSE \E s \in strategies : s.id = strat[1]
    /\ form.trade_type \in {"LONG", "SHORT"}
    /\ form.quantity[1].v > 0

\* TradeForm.is_valid up to the model's constraints: the strategy choice is
\* limited to the request user's strategies, trade_type to SIDE_CHOICES,
\* quantity by MinValueValidator
TradeFormValid(form, strat, u) ==
    /\ IF strat = None THEN TRUE ELSE strat[1] \in OwnStrategies(u)
    /\ form.trade_type \in {"LONG", "SHORT"}
    /\ form.quantity[1].v > 0

\* form.save(commit=False) followed by trade.user = request.user: the form
\* fields replace those of the instance, the other columns stay
FormInstance(base, form, strat, u) ==
    [base EXCEPT !.user = u, !.strategy = strat,
                 !.symbol = form.symbol, !.trade_type = form.trade_type,
                 !.entry_datetime = form.entry_datetime,
                 !.exit_datetime = form.exit_datetime,
                 !.entry_price = form.entry_price,
                 !.exit_price = form.exit_price,
                 !.quantity = form.quantity,
                 !.profit_loss = form.profit_loss,
                 !.commission = form.commission,
                 !.note = form.note, !.duration = form.duration]

\* Trade() with the defaults of the model
NewTrade(id) ==
    [id |-> id, user |-> "", strategy |-> None, symbol |-> "",
     trade_type |-> "", entry_datetime |-> None, exit_datetime |-> None,
     entry_price |-> Some(PyDecimal(0)), exit_price |-> None,
     quantity |-> Some(PyDecimal(1)), profit_loss |-> Some(PyDecimal(0)),
     commission |-> Some(PyDecimal(0)), note |-> "", duration |-> None,
     import_hash |-> ""]

\* trade_new, POST without screenshot files.  An invalid form is rendered
\* again and an exception of Trade.save ends the request: nothing is stored.
TradeNew(u, form, strat) ==
    /\ nextId <= MaxTrades
    /\ LET saved == Save(FormInstance(NewTrade(nextId), form, strat, u), ledger)
       IN  IF ~login_required(u) THEN UNCHANGED <<ledger, nextId>>
           ELSE IF ~TradeFormValid(form, strat, u) THEN UNCHANGED <<ledger, nextId>>
           ELSE IF saved.raised # "" THEN UNCHANGED <<ledger, nextId>>
           ELSE /\ ledger' = ledger \cup {saved.row[1]}
                /\ nextId' = nextId + 1
    /\ UNCHANGED <<upload, strategies, nextStrategyId, req, messages>>
    /\ UNCHANGED community

\* trade_edit, POST without screenshot files: the owner test, the form, then
\* trade.user = request.user and trade.save()
TradeEdit(u, pk, form, strat) ==
    /\ \E trade \in ledger :
          /\ trade.id = pk
          /\ LET saved == Save(FormInstance(trade, form, strat, u), ledger)
             IN  IF ~login_required(u) THEN UNCHANGED ledger
                 ELSE IF trade.user # u /\ u \notin Superusers THEN UNCHANGED ledger
                 ELSE IF ~TradeFormValid(form, strat, u) THEN UNCHANGED ledger
                 ELSE IF saved.raised # "" THEN UNCHANGED ledger
                 ELSE ledger' = (ledger \ {trade}) \cup {saved.row[1]}
    /\ UNCHANGED <<upload, nextId, strategies, nextStrategyId, req, messages>>
    /\ UNCHANGED community

\* trade_delete; the comments and screenshots of the trade go with it
\* (on_delete=CASCADE)
TradeDelete(u, pk) ==
    /\ \E trade \in ledger :
          /\ trade.id = pk
          /\ IF ~login_required(u)
             THEN UNCHANGED <<ledger, comments, screenshots>>
             ELSE IF trade.user # u /\ u \notin Superusers
             THEN UNCHANGED <<ledger, comments, screenshots>>
             ELSE /\ ledger' = ledger \ {trade}
                  /\ comments' = {c \in comments : c.trade # pk}
                  /\ screenshots' = {x \in screenshots : x.trade # pk}
    /\ UNCHANGED <<upload, nextId, strategies, nextStrategyId, req, messages>>
    /\ UNCHANGED <<accounts, profiles, coach_requests, shown, proc, response>>

\* update_trade_strategy, POST: the trade is looked up among the request
\* user's own (404 otherwise); strat is the submitted strategy id, None when
\* the field is empty; the strategy is looked up among the user's own
UpdateTradeStrategy(u, pk, strat) ==
    /\ \E trade \in ledger :
          /\ trade.id = pk
          /\ login_required(u) => trade.user = u
          /\ LET saved == Save([trade EXCEPT !.strategy = strat], ledger)
             IN  IF ~login_required(u) THEN UNCHANGED ledger
                 ELSE IF strat = None THEN UNCHANGED ledger
                 ELSE IF strat[1] \notin OwnStrategies(u) THEN UNCHANGED ledger
                 ELSE IF saved.raised # "" THEN UNCHANGED ledger
                 ELSE ledger' = (ledger \ {trade}) \cup {saved.row[1]}
    /\ UNCHANGED <<upload, nextId, strategies, nextStrategyId, req, messages>>
    /\ UNCHANGED community

\* update_trade_note without the test "if trade.note"
UpdateTradeNoteOverwrite(u, pk, note) ==
    /\ \E trade \in ledger :
          /\ trade.id = pk
          /\ LET saved == Save([trade EXCEPT !.note = note], ledger)
             IN  IF saved.raised # "" THEN UNCHANGED ledger
                 ELSE ledger' = (ledger \ {trade}) \cup {saved.row[1]}
    /\ UNCHANGED <<upload, nextId, strategies, nextStrategyId, req, messages>>
    /\ UNCHANGED community

\* update_trade_note, POST by client u; the view has no login_required and
\* no owner test.  A trade that has a note is left alone; otherwise
\* TradeNoteForm sets the note and saves the trade.
UpdateTradeNote(u, pk, note) ==
    /\ \E trade \in ledger :
          /\ trade.id = pk
          /\ LET saved == Save([trade EXCEPT !.note = note], ledger)
             IN  IF trade.note # "" THEN UNCHANGED ledger
                 ELSE IF saved.raised # "" THEN UNCHANGED ledger
                 ELSE ledger' = (ledger \ {trade}) \cup {saved.row[1]}
    /\ UNCHANGED <<upload, nextId, strategies, nextStrategyId, req, messages>>
    /\ UNCHANGED community

\* on_delete=CASCADE in the place of SET_NULL
CascadeStrategy(rows, pk) == {t \in rows : t.strategy # Some(pk)}

\* on_delete=SET_NULL of Trade.strategy: the rows after strategy pk is gone
SetNullStrategy(rows, pk) ==
    {IF t.strategy = Some(pk) THEN [t EXCEPT !.strategy = None] ELSE t : t \in rows}

\* strategy_delete
StrategyDelete(u, pk) ==
    /\ \E strategy \in strategies :
          /\ strategy.id = pk
          /\ IF strategy.user # u /\ u \notin Superusers
             THEN UNCHANGED <<ledger, strategies>>
             ELSE /\ strategies' = strategies \ {strategy}
                  /\ ledger' = SetNullStrategy(ledger, pk)
    /\ UNCHANGED <<upload, nextId, nextStrategyId, req, messages>>
    /\ UNCHANGED community

\* the files imported next to the form views
TradeUploads ==
    [file : [size : {SmallFileBytes}, headers : {HeaderFull},
             rows : {<<RowShort>>, <<RowBuy>>}],
     start_date : {None}, end_date : {None}]

InitTrades == Init /\ upload \in TradeUploads

StrategyChoices == {None} \cup {Some(i) : i \in 1..MaxStrategies}

TradeIds == 1..(MaxTrades + 1)

\* The form views next to one import request (overlapping imports are the
\* subject of Spec)
NextTrades ==
    \/ \E u \in Users, strat \in StrategyChoices : ImportBegin(1, u, strat)
    \/ ImportRow(1)
    \/ ImportEnd(1)
    \/ \E u \in Users : StrategyNew(u)
    \/ \E u \in Clients, form \in FormPool, strat \in StrategyChoices :
          TradeNew(u, form, strat)
    \/ \E u \in Clients, pk \in TradeIds, form \in FormPool,
          strat \in StrategyChoices : TradeEdit(u, pk, form, strat)
    \/ \E u \in Clients, pk \in TradeIds : TradeDelete(u, pk)
    \/ \E u \in Clients, pk \in TradeIds, strat \in StrategyChoices :
          UpdateTradeStrategy(u, pk, strat)
    \/ \E u \in Clients, pk \in TradeIds, note \in NotePool :
          UpdateTradeNote(u, pk, note)
    \/ \E u \in Users, pk \in 1..MaxStrategies : StrategyDelete(u, pk)

SpecTrades == InitTrades /\ [][NextTrades]_vars


--------------------------------------------------------------------------
(* trade_new with uploaded screenshot files *)

\* files sent in the field "screenshots" of one request
MaxFiles == 2

\* content_type of an uploaded file
ContentTypes == {"image/png", "application/pdf"}

FileLists == UNION {[1..k -> ContentTypes] : k \in 0..MaxFiles}

\* f.content_type.startswith('image/')
IsImage(content_type) == content_type = "image/png"

\* position of the first file of the list that is not an image, 0 if none
RECURSIVE FirstNonImage(_, _)
FirstNonImage(files, i) ==
    IF i > Len(files) THEN 0
    ELSE IF ~IsImage(files[i]) THEN i
    ELSE FirstNonImage(files, i + 1)

\* Screenshot.objects.create(image=f, trade=trade) for the first n files of a
\* request; a row is the trade and the rank of the screenshot within it
CreateScreenshots(rows, pk, n) ==
    LET have == Cardinality({x \in rows : x.trade = pk})
    IN  rows \cup {[trade |-> pk, no |-> have + i] : i \in 1..n}

Response(view, result) == [view |-> view, result |-> result]

\* the files for which trade_new has created a Screenshot when it answers
\* that all files must be images: those in front of the first other file
StoredBeforeRejection(files) == FirstNonImage(files, 1) - 1

\* trade_new, POST with the files of the field "screenshots": the form is
\* validated and the trade saved; then the loop creates a Screenshot per file
\* until a file is not an image, where the view renders the form with the
\* error 'Tous les fichiers doivent être des images.'
TradeNewUpload(u, form, strat, files) ==
    /\ nextId <= MaxTrades
    /\ LET saved == Save(FormInstance(NewTrade(nextId), form, strat, u), ledger)
           bad == FirstNonImage(files, 1)
       IN  IF ~login_required(u)
           THEN /\ response' = Response("trade_new", "login")
                /\ UNCHANGED <<ledger, nextId, screenshots>>
           ELSE IF ~TradeFormValid(form, strat, u)
           THEN /\ response' = Response("trade_new", "form_errors")
                /\ UNCHANGED <<ledger, nextId, screenshots>>
           ELSE IF saved.raised # ""
           THEN /\ response' = Response("trade_new", saved.raised)
                /\ UNCHANGED <<ledger, nextId, screenshots>>
           ELSE /\ ledger' = ledger \cup {saved.row[1]}
                /\ nextId' = nextId + 1
                /\ IF bad # 0
                   THEN /\ screenshots' = CreateScreenshots(screenshots, nextId,
                                              StoredBeforeRejection(files))
                        /\ response' = Response("trade_new", "not_images")
                   ELSE /\ screenshots' = CreateScreenshots(screenshots, nextId,
                                              Len(files))
                        /\ response' = Response("trade_new", "redirect_detail")
    /\ UNCHANGED <<upload, strategies, nextStrategyId, req, messages>>
    /\ UNCHANGED <<accounts, profiles, coach_requests, comments, shown, proc>>

\* add_trade_screenshot, POST: the trade is looked up among the request
\* user's own (404 otherwise); every file is stored, whatever its type
AddTradeScreenshot(u, trade_id, files) ==
    /\ login_required(u)
    /\ \E trade \in ledger : trade.id = trade_id /\ trade.user = u
    /\ Cardinality({x \in screenshots : x.trade = trade_id}) + Len(files) <= MaxFiles
    /\ screenshots' = CreateScreenshots(screenshots, trade_id, Len(files))
    /\ response' = Response("add_trade_screenshot", "redirect_list")
    /\ UNCHANGED <<upload, ledger, nextId, strategies, nextStrategyId, req, messages>>
    /\ UNCHANGED <<accounts, profiles, coach_requests, comments, shown, proc>>

InitUpload == Init /\ upload \in TradeUploads /\ upload.file.rows = <<RowShort>>

NextUpload ==
    \/ \E u \in Users : StrategyNew(u)
    \/ \E u \in Clients, form \in FormPool, strat \in StrategyChoices,
          files \in FileLists : TradeNewUpload(u, form, strat, files)
    \/ \E u \in Users, trade_id \in TradeIds, files \in FileLists :
          AddTradeScreenshot(u, trade_id, files)
    \/ \E u \in Users, pk \in TradeIds : TradeDelete(u, pk)

SpecUpload == InitUpload /\ [][NextUpload]_vars

--------------------------------------------------------------------------
(* Accounts and profiles: register, the post_save handler of User and the *)
(* post_migrate backfill, one database operation per step                 *)

ProfilesOf(u) == {p \in profiles : p.user = u}

\* the id the database gives the next row of a table (AUTOINCREMENT)
NextRowId(rows) ==
    IF rows = {} THEN 1
    ELSE (CHOOSE i \in {r.id : r \in rows} : \A r \in rows : r.id <= i) + 1

\* a Profile table without the unique index of the one-to-one field
UniqProfileUserOff(u, rows) == TRUE

\* OneToOneField(User): at most one Profile row per user
UniqProfileUser(u, rows) == \A p \in rows : p.user # u

\* handler h is free to serve a request
Free(h) == proc[h].pc \in {"idle", "done"}

Begin(view, u) == [IdleHandler EXCEPT !.view = view, !.user = u]

\* the response of a view of the coaching pages is sent: the handler keeps
\* what was answered
Ended(view, outcome) ==
    [IdleHandler EXCEPT !.pc = "done", !.view = view, !.outcome = outcome]

\* register, POST with a valid form: form.save() inserts the User and
\* post_save calls the handler with created=True, which starts get_or_create
Register(h, u) ==
    /\ Free(h)
    /\ u \notin accounts
    /\ accounts' = accounts \cup {u}
    /\ proc' = [proc EXCEPT ![h] = [Begin("user_created", u) EXCEPT !.pc = "get"]]
    /\ UNCHANGED <<upload, ledger, nextId, strategies, nextStrategyId, req, messages>>
    /\ UNCHANGED <<profiles, coach_requests, comments, screenshots, shown, response>>

\* a save of an existing User (login stores last_login): post_save with
\* created=False; hasattr(instance, "profile") reads the profile; when there
\* is one it is saved as read, else get_or_create is started
UserSave(h, u) ==
    /\ Free(h)
    /\ u \in accounts
    /\ proc' = [proc EXCEPT ![h] =
           IF ProfilesOf(u) # {}
           THEN [Begin("user_saved", u) EXCEPT !.pc = "done", !.outcome = "saved"]
           ELSE [Begin("user_saved", u) EXCEPT !.pc = "get"]]
    /\ UNCHANGED <<upload, ledger, nextId, strategies, nextStrategyId, req, messages>>
    /\ UNCHANGED <<accounts, profiles, coach_requests, comments, screenshots, shown,
                   response>>

\* Profile.objects.get_or_create(user=instance), the lookup
ProfileGet(h) ==
    /\ proc[h].pc = "get"
    /\ proc' = [proc EXCEPT ![h] =
           IF ProfilesOf(proc[h].user) # {}
           THEN [@ EXCEPT !.pc = "done", !.outcome = "found"]
           ELSE [@ EXCEPT !.pc = "insert"]]
    /\ UNCHANGED <<upload, ledger, nextId, strategies, nextStrategyId, req, messages>>
    /\ UNCHANGED <<accounts, profiles, coach_requests, comments, screenshots, shown,
                   response>>

\* Profile.objects.get_or_create(user=instance), the insert inside
\* transaction.atomic(): the row is created, or the unique index raises
\* IntegrityError and the row of the other writer is taken
ProfileInsert(h) ==
    /\ proc[h].pc = "insert"
    /\ IF UniqProfileUser(proc[h].user, profiles)
       THEN /\ profiles' = profiles \cup
                   {NewProfile(NextRowId(profiles), proc[h].user)}
            /\ proc' = [proc EXCEPT ![h].pc = "done", ![h].outcome = "created"]
       ELSE /\ UNCHANGED profiles
            /\ proc' = [proc EXCEPT ![h].pc = "done", ![h].outcome = "conflict"]
    /\ UNCHANGED <<upload, ledger, nextId, strategies, nextStrategyId, req, messages>>
    /\ UNCHANGED <<accounts, coach_requests, comments, screenshots, shown, response>>

\* ensure_profiles_exist after migrate of the app: the query of the users
\* without profile; bulk_create is called only when there is one
BackfillQuery(h) ==
    /\ Free(h)
    /\ LET users_without_profile == {u \in accounts : ProfilesOf(u) = {}}
       IN  proc' = [proc EXCEPT ![h] =
               IF users_without_profile = {}
               THEN [Begin("backfill", "") EXCEPT !.pc = "done", !.outcome = "none"]
               ELSE [Begin("backfill", "") EXCEPT
                        !.pc = "bulk_create", !.to_create = users_without_profile]]
    /\ UNCHANGED <<upload, ledger, nextId, strategies, nextStrategyId, req, messages>>
    /\ UNCHANGED <<accounts, profiles, coach_requests, comments, screenshots, shown,
                   response>>

\* the rows bulk_create(ignore_conflicts=True) adds for the users of a set,
\* in the order of their ids: a row that conflicts is left out
RECURSIVE BulkCreateProfiles(_, _)
BulkCreateProfiles(rows, users) ==
    IF users = {} THEN rows
    ELSE LET u == CHOOSE x \in users : \A y \in users : UserNo(x) <= UserNo(y)
         IN  BulkCreateProfiles(
                 IF UniqProfileUser(u, rows)
                 THEN rows \cup {NewProfile(NextRowId(rows), u)}
                 ELSE rows,
                 users \ {u})

\* Profile.objects.bulk_create(to_create, ignore_conflicts=True)
BackfillInsert(h) ==
    /\ proc[h].pc = "bulk_create"
    /\ profiles' = BulkCreateProfiles(profiles, proc[h].to_create)
    /\ proc' = [proc EXCEPT ![h].pc = "done", ![h].outcome = "created"]
    /\ UNCHANGED <<upload, ledger, nextId, strategies, nextStrategyId, req, messages>>
    /\ UNCHANGED <<accounts, coach_requests, comments, screenshots, shown, response>>

\* some accounts exist from before; of these some have no profile yet (they
\* were created before the Profile model and its signal)
InitProfiles ==
    /\ upload \in TradeUploads /\ upload.file.rows = <<RowShort>>
    /\ ledger = {}
    /\ nextId = 1
    /\ strategies = {}
    /\ nextStrategyId = 1
    /\ req = [r \in Requests |-> IdleRequest]
    /\ messages = [u \in Users |-> <<>>]
    /\ accounts \in SUBSET Members
    /\ \E with_profile \in SUBSET accounts :
          profiles = {NewProfile(UserNo(u), u) : u \in with_profile}
    /\ coach_requests = {}
    /\ comments = {}
    /\ screenshots = {}
    /\ shown = {}
    /\ proc = [h \in Handlers |-> IdleHandler]
    /\ response = None

NextProfiles ==
    \/ \E h \in Handlers, u \in Members : Register(h, u)
    \/ \E h \in Handlers, u \in Members : UserSave(h, u)
    \/ \E h \in Handlers : ProfileGet(h)
    \/ \E h \in Handlers : ProfileInsert(h)
    \/ \E h \in Handlers : BackfillQuery(h)
    \/ \E h \in Handlers : BackfillInsert(h)

SpecProfiles == InitProfiles /\ [][NextProfiles]_vars

--------------------------------------------------------------------------
(* Coaching: choose_coach, coach_respond_request (one database operation  *)
(* per step), trade_detail, coach_student_trades, add_trade_comment       *)

\* comments stored by the coaching views
MaxComments == 2

ProfileOf(u) == CHOOSE p \in profiles : p.user = u

\* request.user.profile.is_coach
is_coach(u) == login_required(u) /\ ProfileOf(u).is_coach

\* CoachRequest rows of a student that wait for an answer (accepted IS NULL)
PendingOf(student) ==
    {r \in coach_requests : r.student = student /\ r.accepted = None}

\* UniqueConstraint(fields=["student", "coach"], name="uniq_coach_request")
UniqCoachRequest(student, coach, rows) ==
    \A r \in rows : ~(r.student = student /\ r.coach = coach)

\* CoachSelectionForm.is_valid: the choice is a user whose profile has
\* is_coach set; selected is None when the field is left empty
CoachSelectionValid(selected) ==
    IF selected = None THEN FALSE
    ELSE selected[1] \in accounts /\ ProfileOf(selected[1]).is_coach

\* choose_coach up to the form: the tests on the profile of the request
\* user, the lookup of a pending request, the validation of the form
ChooseCoach(h, u, method, selected) ==
    /\ Free(h)
    /\ u \in accounts
    /\ LET begun == Begin("choose_coach", u)
           ended(outcome) == Ended("choose_coach", outcome)
       IN  proc' = [proc EXCEPT ![h] =
               IF ProfileOf(u).is_coach THEN ended("error_is_coach")
               ELSE IF ProfileOf(u).coach # None THEN ended("info_has_coach")
               ELSE IF PendingOf(u) # {} THEN ended("info_pending")
               ELSE IF method # "POST" THEN ended("form")
               ELSE IF ~CoachSelectionValid(selected) THEN ended("form_errors")
               ELSE [begun EXCEPT !.pc = "create", !.coach = selected[1]]]
    /\ UNCHANGED <<upload, ledger, nextId, strategies, nextStrategyId, req, messages>>
    /\ UNCHANGED <<accounts, profiles, coach_requests, comments, screenshots, shown,
                   response>>

\* choose_coach, CoachRequest.objects.create(student, coach): the row is
\* inserted with accepted NULL, or the unique constraint raises
\* IntegrityError, which the view does not catch
ChooseCoachCreate(h) ==
    /\ proc[h].pc = "create"
    /\ IF UniqCoachRequest(proc[h].user, proc[h].coach, coach_requests)
       THEN /\ coach_requests' = coach_requests \cup
                   {[id |-> NextRowId(coach_requests), student |-> proc[h].user,
                     coach |-> proc[h].coach, accepted |-> None]}
            /\ proc' = [proc EXCEPT ![h] = Ended("choose_coach", "sent")]
       ELSE /\ UNCHANGED coach_requests
            /\ proc' = [proc EXCEPT ![h] = Ended("choose_coach", "IntegrityError")]
    /\ UNCHANGED <<upload, ledger, nextId, strategies, nextStrategyId, req, messages>>
    /\ UNCHANGED <<accounts, profiles, comments, screenshots, shown, response>>

\* coach_respond_request up to the answer: the coach test and
\* get_object_or_404(CoachRequest, pk, coach=request.user, accepted NULL);
\* without such a row the answer is 404
CoachRespondRequest(h, u, req_id, answer) ==
    /\ Free(h)
    /\ u \in accounts
    /\ LET begun == [Begin("coach_respond_request", u) EXCEPT
                        !.req_id = req_id, !.answer = answer]
       IN  IF ~ProfileOf(u).is_coach
           THEN proc' = [proc EXCEPT ![h] =
                    Ended("coach_respond_request", "non_authorise")]
           ELSE /\ \E r \in coach_requests :
                      r.id = req_id /\ r.coach = u /\ r.accepted = None
                /\ proc' = [proc EXCEPT ![h] =
                       IF answer \in {"accept", "refuse"}
                       THEN [begun EXCEPT !.pc = "save"]
                       ELSE Ended("coach_respond_request", "redirect")]
    /\ UNCHANGED <<upload, ledger, nextId, strategies, nextStrategyId, req, messages>>
    /\ UNCHANGED <<accounts, profiles, coach_requests, comments, screenshots, shown,
                   response>>

\* coach_req.save(): the row read before is written back with the answer
CoachRequestSave(h) ==
    /\ proc[h].pc = "save"
    /\ coach_requests' =
          {IF r.id = proc[h].req_id
           THEN [r EXCEPT !.accepted = Some(proc[h].answer = "accept")]
           ELSE r : r \in coach_requests}
    /\ proc' = [proc EXCEPT ![h] =
           IF proc[h].answer = "accept" THEN [@ EXCEPT !.pc = "link"]
           ELSE Ended("coach_respond_request", "refused")]
    /\ UNCHANGED <<upload, ledger, nextId, strategies, nextStrategyId, req, messages>>
    /\ UNCHANGED <<accounts, profiles, comments, screenshots, shown, response>>

\* student_profile.coach = request.user; student_profile.save()
StudentProfileSave(h) ==
    /\ proc[h].pc = "link"
    /\ \E r \in coach_requests :
          /\ r.id = proc[h].req_id
          /\ profiles' = {IF p.user = r.student
                          THEN [p EXCEPT !.coach = Some(proc[h].user)]
                          ELSE p : p \in profiles}
    /\ proc' = [proc EXCEPT ![h] = Ended("coach_respond_request", "accepted")]
    /\ UNCHANGED <<upload, ledger, nextId, strategies, nextStrategyId, req, messages>>
    /\ UNCHANGED <<accounts, coach_requests, comments, screenshots, shown, response>>

Shown(viewer, trade_ids) == {[viewer |-> viewer, trade |-> id] : id \in trade_ids}

\* Comment.objects.create(trade, coach, content)
CreateComment(rows, trade_id, coach) ==
    rows \cup {[id |-> NextRowId(rows), trade |-> trade_id, coach |-> coach]}

\* trade_detail: the page of trade pk is rendered for its owner, for a
\* superuser and for every user whose profile has is_coach set; any other
\* user is redirected to the list
TradeDetail(u, pk) ==
    /\ login_required(u)
    /\ \E trade \in ledger :
          /\ trade.id = pk
          /\ IF trade.user # u /\ u \notin Superusers /\ ~ProfileOf(u).is_coach
             THEN UNCHANGED shown
             ELSE shown' = shown \cup Shown(u, {pk})
    /\ UNCHANGED <<upload, ledger, nextId, strategies, nextStrategyId, req, messages>>
    /\ UNCHANGED <<accounts, profiles, coach_requests, comments, screenshots, proc,
                   response>>

\* coach_student_trades: only for a coach and a student whose profile names
\* this coach; GET lists the trades of the student, POST with trade_id and
\* content stores a comment on a trade of the student (404 for another's)
CoachStudentTrades(u, student, method, trade_id) ==
    /\ login_required(u)
    /\ student \in accounts
    /\ IF ~ProfileOf(u).is_coach \/ ProfileOf(student).coach # Some(u)
       THEN UNCHANGED <<shown, comments>>
       ELSE IF method = "POST"
       THEN /\ \E trade \in ledger : trade.id = trade_id /\ trade.user = student
            /\ Cardinality(comments) < MaxComments
            /\ comments' = CreateComment(comments, trade_id, u)
            /\ UNCHANGED shown
       ELSE /\ shown' = shown \cup Shown(u, {t.id : t \in {x \in ledger : x.user = student}})
            /\ UNCHANGED comments
    /\ UNCHANGED <<upload, ledger, nextId, strategies, nextStrategyId, req, messages>>
    /\ UNCHANGED <<accounts, profiles, coach_requests, screenshots, proc, response>>

\* add_trade_comment, AJAX POST with trade_id and content: user_passes_test
\* lets every coach through; the trade is looked up by pk alone
AddTradeComment(u, trade_id) ==
    /\ IF ~is_coach(u) THEN UNCHANGED comments
       ELSE /\ \E trade \in ledger : trade.id = trade_id
            /\ Cardinality(comments) < MaxComments
            /\ comments' = CreateComment(comments, trade_id, u)
    /\ UNCHANGED <<upload, ledger, nextId, strategies, nextStrategyId, req, messages>>
    /\ UNCHANGED <<accounts, profiles, coach_requests, screenshots, shown, proc,
                   response>>

\* the trade u1 entered through trade_new before the coaching begins
StudentTrade ==
    Save(FormInstance(NewTrade(1), FormClosedLong, None, "u1"), {}).row[1]

\* every member is registered; the administrator has set is_coach on some
\* profiles; u1 has journalled one trade
InitCoach ==
    /\ upload \in TradeUploads /\ upload.file.rows = <<RowShort>>
    /\ ledger = {StudentTrade}
    /\ nextId = 2
    /\ strategies = {}
    /\ nextStrategyId = 1
    /\ req = [r \in Requests |-> IdleRequest]
    /\ messages = [u \in Users |-> <<>>]
    /\ accounts = Members
    /\ \E coaches \in SUBSET Members :
          profiles = {[NewProfile(UserNo(u), u) EXCEPT !.is_coach = u \in coaches] :
                         u \in Members}
    /\ coach_requests = {}
    /\ comments = {}
    /\ screenshots = {}
    /\ shown = {}
    /\ proc = [h \in Handlers |-> IdleHandler]
    /\ response = None

\* ids of CoachRequest rows a coach can answer
CoachRequestIds == 1..Cardinality(Members)

\* The pairing views, served at the same time by the handlers
NextCoach ==
    \/ \E h \in Handlers, u \in Members, method \in {"GET", "POST"},
          selected \in {None} \cup {Some(c) : c \in Members} :
          ChooseCoach(h, u, method, selected)
    \/ \E h \in Handlers : ChooseCoachCreate(h)
    \/ \E h \in Handlers, u \in Members, req_id \in CoachRequestIds,
          answer \in {"accept", "refuse", ""} :
          CoachRespondRequest(h, u, req_id, answer)
    \/ \E h \in Handlers : CoachRequestSave(h)
    \/ \E h \in Handlers : StudentProfileSave(h)

SpecCoach == InitCoach /\ [][NextCoach]_vars

\* The views that show a trade or store a comment, next to pairing requests
\* served one after the other (overlapping ones are the subject of SpecCoach)
NextDelegate ==
    \/ \E u \in Members, selected \in {Some(c) : c \in Members} :
          ChooseCoach(1, u, "POST", selected)
    \/ ChooseCoachCreate(1)
    \/ \E u \in Members, req_id \in CoachRequestIds,
          answer \in {"accept", "refuse"} :
          CoachRespondRequest(1, u, req_id, answer)
    \/ CoachRequestSave(1)
    \/ StudentProfileSave(1)
    \/ \E u \in Members, pk \in TradeIds : TradeDetail(u, pk)
    \/ \E u \in Members, student \in Members, method \in {"GET", "POST"},
          trade_id \in TradeIds : CoachStudentTrades(u, student, method, trade_id)
    \/ \E u \in Members \cup {AnonymousUser}, trade_id \in TradeIds :
          AddTradeComment(u, trade_id)

SpecDelegate == InitCoach /\ [][NextDelegate]_vars
--------------------------------------------------------------------------
(* stats_view *)

\* sum(t.profit_loss for t in trades)
RECURSIVE SumProfitLoss(_)
SumProfitLoss(trades) ==
    IF trades = {} THEN 0
    ELSE LET t == CHOOSE x \in trades : TRUE
         IN  t.profit_loss[1].v + SumProfitLoss(trades \ {t})

\* a quotient num / den kept exact
Ratio(num, den) == [num |-> num, den |-> den]

\* win_rate = (nb_winning / nb_trades) * 100, 0 without trades
WinRate(nb_winning, nb_trades) ==
    IF nb_trades > 0 THEN Ratio(nb_winning * 100, nb_trades) ELSE Ratio(0, 1)

\* trades.order_by('entry_datetime'): ascending entry_datetime; the database
\* decides where NULL sorts (first or last) and the order of equal keys
OrderByEntry(trades) ==
    LET n == Cardinality(trades)
        Before(a, b, nulls_first) ==
            IF a.entry_datetime = None /\ b.entry_datetime = None THEN TRUE
            ELSE IF a.entry_datetime = None THEN nulls_first
            ELSE IF b.entry_datetime = None THEN ~nulls_first
            ELSE a.entry_datetime[1] <= b.entry_datetime[1]
    IN  {seq \in [1..n -> trades] :
            /\ \A i, j \in 1..n : i # j => seq[i] # seq[j]
            /\ \E nulls_first \in BOOLEAN :
                   \A i, j \in 1..n : i < j => Before(seq[i], seq[j], nulls_first)}

\* cumulative after the first i trades of the loop
RECURSIVE Cumulative(_, _)
Cumulative(seq, i) ==
    IF i = 0 THEN 0 ELSE Cumulative(seq, i - 1) + seq[i].profit_loss[1].v

\* the label of a point: the entry timestamp to the second, or '' without one
ChartLabel(trade) ==
    IF trade.entry_datetime = None THEN [kind |-> "empty", v |-> 0]
    ELSE [kind |-> "datetime", v |-> trade.entry_datetime[1]]

\* chart_data built by the loop over trades_ordered
ChartData(seq) ==
    [x |-> [i \in 1..Len(seq) |-> ChartLabel(seq[i])],
     y |-> [i \in 1..Len(seq) |-> Cumulative(seq, i)]]

\* The figures stats_view computes from the queryset trades; charts holds
\* every chart_data the ordering of the database allows
Statistics(trades) ==
    LET nb_trades == Cardinality(trades)
        nb_winning == Cardinality({t \in trades : t.profit_loss[1].v > 0})
    IN  [nb_trades |-> nb_trades,
         total_profit |-> SumProfitLoss(trades),
         win_rate |-> WinRate(nb_winning, nb_trades),
         charts |-> {ChartData(seq) : seq \in OrderByEntry(trades)}]

\* Trade.objects.filter(strategy=selected_strategy)
TradesOfStrategy(strategy_id) == {t \in ledger : t.strategy = Some(strategy_id)}

\* stats_view for request user u with ?strategy_id= an own strategy
stats_view(u, strategy_id) == Statistics(TradesOfStrategy(strategy_id))

TypeOK ==
    /\ upload \in Uploads
    /\ nextId \in Nat
    /\ \A w \in Requests : req[w].pc \in {"idle", "loop", "done", "failed"}

--------------------------------------------------------------------------
(* Vocabulary of the properties *)

TradesOf(u) == {t \in ledger : t.user = u}

\* the fields that identify a logical row for one owner
LogicalRow(t) ==
    <<t.user, t.strategy, t.symbol, t.trade_type, t.entry_datetime,
      t.exit_datetime, t.entry_price, t.exit_price, t.quantity>>

NoRowStoredTwice(rows) ==
    \A a, b \in rows : LogicalRow(a) = LogicalRow(b) => a.id = b.id

\* request w executed one iteration of its row loop in this step
RowStep(w) == req[w].pc = "loop" /\ req'[w] # req[w] /\ req[w].idx < Len(upload.file.rows)

CurrentRow(w) == upload.file.rows[req[w].idx + 1]

\* the instance the loop would create from the current row if no date
\* filter were given
UnfilteredInstance(w) ==
    RowInstance(CurrentRow(w), upload.file.headers, None, None,
                req[w].user, req[w].strategy, nextId)

OnlyFirstTwoBegun == \A r \in Requests : r > 2 => req[r].pc = "idle"

OnlyFirstBegun == \A r \in Requests : r > 1 => req[r].pc = "idle"

--------------------------------------------------------------------------
(* C1 *)

\* C1: importing the same file for the same owner (same strategy, same date
\* filter) twice in sequence reports N inserted trades the first time and 0
\* the second time, and the owner then has exactly N trades.
C1_SecondImportInsertsNothing ==
    \A u \in Users :
        ( /\ OnlyFirstTwoBegun
          /\ req[1].pc = "done" /\ req[2].pc = "done"
          /\ req[1].user = u /\ req[2].user = u
          /\ req[1].strategy = req[2].strategy
          /\ Len(messages[u]) = 2
          /\ messages[u][1].text = "imported"
          /\ messages[u][2].text = "imported" )
        => /\ messages[u][2].count = 0
           /\ Cardinality(TradesOf(u)) = messages[u][1].count

(* C2 *)

\* C2: no two trades of one owner share a non-empty import_hash, every trade
\* the CSV import creates carries a non-empty import_hash, and the same
\* logical row is never stored twice for one owner.
C2_ImportHashIdentifiesRows ==
    [][ /\ \A a, b \in ledger' :
               (a.user = b.user /\ a.import_hash = b.import_hash
                /\ a.import_hash # "") => a.id = b.id
        /\ \A w \in Requests :
               RowStep(w) => \A t \in ledger' \ ledger : t.import_hash # ""
        /\ NoRowStoredTwice(ledger') ]_vars

(* C3 *)

\* C3: while two imports of the same owner and file overlap, no step stores
\* a logical row a second time, and a request fails only on a row that
\* would fail against an empty table too (never because of the other
\* request).
C3_ConcurrentImportsInsertOnce ==
    [][ \A w1, w2 \in Requests :
          ( /\ w1 # w2
            /\ req[w1].pc = "loop" /\ req[w2].pc = "loop"
            /\ req[w1].user = req[w2].user
            /\ req[w1].strategy = req[w2].strategy
            /\ NoRowStoredTwice(ledger) )
          => /\ NoRowStoredTwice(ledger')
             /\ (RowStep(w1) /\ req'[w1].pc = "failed")
                    => /\ UnfilteredInstance(w1) # None
                       /\ Save(UnfilteredInstance(w1)[1], {}).raised # "" ]_vars

(* C4 *)

\* C4: an import run that ends in an unexpected failure leaves the ledger as
\* it was before the run; for the first run on an empty ledger, empty.
C4_FailedRunLeavesNothing ==
    (OnlyFirstBegun /\ req[1].pc = "failed") => ledger = {}

(* C5 *)

\* the Trade Type text after trimming and upper-casing
TrimUpper(s) ==
    CASE StripText(s) \in {"long", "Long"} -> "LONG"
      [] StripText(s) \in {"short", "Short"} -> "SHORT"
      [] OTHER -> StripText(s)

\* a data row that is short, has a bad Trade Type, an unparseable date, an
\* unparseable decimal or a non-positive quantity
BadRow(row) ==
    \/ row.n < Len(upload.file.headers)
    \/ TrimUpper(row.TradeType) \notin {"LONG", "SHORT"}
    \/ row.Entry.fmt = "bad" \/ row.Exit.fmt = "bad"
    \/ \E c \in {row.EntryPrice, row.ExitPrice, row.Quantity} : c.kind \in {"text", "blank"}
    \/ row.Commission.kind = "text"
    \/ row.Quantity.v <= 0

\* C5: a row that is short, has a Trade Type other than LONG/SHORT, an
\* unparseable date or decimal, or a non-positive quantity is dropped and
\* the loop goes on to the next row; the import is never aborted by it.
C5_BadRowNeverAborts ==
    [][ \A w \in Requests :
          (RowStep(w) /\ BadRow(CurrentRow(w)))
          => /\ req'[w].pc = "loop"
             /\ req'[w].idx = req[w].idx + 1
             /\ ledger' = ledger ]_vars

(* C6 *)

RejectedRows == {i \in 1..Len(upload.file.rows) : BadRow(upload.file.rows[i])}

\* C6: the summary of a finished import reports rows_inserted = the number
\* of trades the run added and rows_rejected = the number of data rows
\* dropped as invalid.
C6_SummaryCountsInsertedAndRejected ==
    \A u \in Users :
        ( /\ OnlyFirstBegun
          /\ req[1].pc = "done" /\ req[1].user = u
          /\ Len(messages[u]) = 1 /\ messages[u][1].text = "imported" )
        => LET summary == messages[u][1]
           IN  /\ summary.count = Cardinality(ledger)
               /\ "rows_rejected" \in DOMAIN summary
               /\ summary.rows_rejected = Cardinality(RejectedRows)

(* C7 *)

\* start_date <= date(t) <= end_date, on instants: t lies between the first
\* tick of start_date and the last tick of end_date
WithinFilter(t) ==
    /\ upload.start_date # None => upload.start_date[1] * TicksPerDay <= t
    /\ upload.end_date # None => t < (upload.end_date[1] + 1) * TicksPerDay

RowDates(w) ==
    ParseRowDates(clean_datetime_str(CurrentRow(w).Entry),
                  clean_datetime_str(CurrentRow(w).Exit))

\* C7: a row is inserted only if its entry date lies in the inclusive range
\* [start_date, end_date]; a row outside the range is passed over: no trade,
\* no change of the count, no message, and the loop goes on; a row inside
\* the range that is otherwise insertable is inserted.
C7_DateFilter ==
    [][ \A w \in Requests :
          RowStep(w) =>
            LET inside == RowDates(w).ok /\ WithinFilter(RowDates(w).entry[1])
            IN  /\ ledger' # ledger => inside
                /\ (RowDates(w).ok /\ ~inside)
                      => /\ ledger' = ledger
                         /\ req' = [req EXCEPT ![w].idx = @ + 1]
                         /\ messages' = messages
                /\ (inside /\ UnfilteredInstance(w) # None /\ req'[w].pc = "loop")
                      => /\ Cardinality(ledger') = Cardinality(ledger) + 1
                         /\ req'[w].trades_count = req[w].trades_count + 1 ]_vars

\* a finished import with both dates given that kept a row entered on the
\* boundary day after midnight and passed over a row outside the range
C7_Witness ==
    /\ upload.start_date # None /\ upload.end_date # None
    /\ \E w \in Requests :
          /\ req[w].pc = "done"
          /\ req[w].trades_count = 1
          /\ \E t \in ledger :
                /\ DateOf(t.entry_datetime[1]) = upload.end_date[1]
                /\ t.entry_datetime[1] > upload.end_date[1] * TicksPerDay
          /\ \E i \in 1..Len(upload.file.rows) :
                LET row == upload.file.rows[i]
                IN  /\ RowInstance(row, upload.file.headers, None, None,
                                   req[w].user, req[w].strategy, 0) # None
                    /\ RowInstance(row, upload.file.headers, upload.start_date,
                                   upload.end_date, req[w].user, req[w].strategy,
                                   0) = None

(* C8 *)

SevenRequired ==
    {"Symbol", "Trade Type", "Entry DateTime", "Exit DateTime", "Entry Price",
     "Exit Price", "Trade Quantity"}

AbsentRequired == {h \in SevenRequired : h \notin HeaderMap(upload.file.headers)}

\* C8: the file is rejected at the header exactly when one of the seven
\* required columns is absent; a rejection processes no row and its error
\* names every absent required column.
C8_HeaderValidation ==
    /\ \A r \in Requests :
          /\ req[r].pc \in {"loop", "failed"} => AbsentRequired = {}
          /\ (req[r].pc # "idle" /\ AbsentRequired # {})
                => req[r].pc = "done" /\ req[r].idx = 0
    /\ \A u \in Users : \A i \in 1..Len(messages[u]) :
          /\ messages[u][i].text = "imported" => AbsentRequired = {}
          /\ messages[u][i].level = "error"
                => /\ AbsentRequired # {}
                   /\ {messages[u][i].header} = AbsentRequired
                   /\ ledger = {}

(* C9 *)

\* C9: an upload larger than 5 MiB is rejected before any row is processed;
\* the ledger is unchanged by the request.
C9_OversizedFileRejected ==
    upload.file.size > MaxUploadBytes
    => /\ ledger = {}
       /\ \A r \in Requests : req[r].pc \in {"idle", "done"} /\ req[r].idx = 0

(* C10 *)

\* (exit_price - entry_price) * quantity * sign - commission
PnlFormula(t) ==
    LET sign == IF t.trade_type = "LONG" THEN 1 ELSE 0 - 1
        commission == IF t.commission = None THEN 0 ELSE t.commission[1].v
    IN  (t.exit_price[1].v - t.entry_price[1].v) * t.quantity[1].v * sign - commission

\* C10: whenever computed_pnl is evaluated on a trade it returns
\* (exit_price - entry_price) * quantity * sign - commission, sign +1 for
\* LONG and -1 otherwise, and 0 when exit_price is absent.
C10_ComputedPnlIsFormula ==
    \A w \in Requests :
        req[w].pnl_call # None
        => LET call == req[w].pnl_call[1]
           IN  /\ call.result.ty # "TypeError"
               /\ call.result.v = IF call.args.exit_price = None THEN 0
                                  ELSE PnlFormula(call.args)

(* C11 *)

\* C11: every trade in the ledger that has an exit_price stores a
\* profit_loss equal to (exit_price - entry_price) * quantity * sign -
\* commission.
C11_StoredPnlIsFormula ==
    \A t \in ledger :
        t.exit_price # None => t.profit_loss[1].v = PnlFormula(t)

(* C12 *)

\* the trade with primary key pk keeps its stored profit_loss in this step
PnlKept(pk) ==
    \A a \in ledger, b \in ledger' :
        (a.id = pk /\ b.id = pk) => b.profit_loss = a.profit_loss

\* C12: a save that submits no new profit_loss (update_trade_strategy,
\* update_trade_note, a trade_edit whose form carries the stored
\* profit_loss) leaves the stored profit_loss of the trade as it was.
C12_PnlFixedAtCreation ==
    [][ /\ \A u \in Users, pk \in TradeIds, strat \in StrategyChoices :
               UpdateTradeStrategy(u, pk, strat) => PnlKept(pk)
        /\ \A u \in Clients, pk \in TradeIds, note \in NotePool :
               UpdateTradeNote(u, pk, note) => PnlKept(pk)
        /\ \A u \in Users, pk \in TradeIds, form \in FormPool,
              strat \in StrategyChoices :
               ( /\ TradeEdit(u, pk, form, strat)
                 /\ \E t \in ledger :
                       t.id = pk /\ t.profit_loss = form.profit_loss )
               => PnlKept(pk) ]_vars

(* C13 *)

\* record well-formedness: positive quantity, direction LONG or SHORT, exit
\* not before entry when both timestamps are present
WellFormed(t) ==
    /\ t.quantity # None /\ t.quantity[1].v > 0
    /\ t.trade_type \in {"LONG", "SHORT"}
    /\ (t.entry_datetime # None /\ t.exit_datetime # None)
           => t.exit_datetime[1] >= t.entry_datetime[1]

C14_DurationDerived ==
    \A t \in ledger :
        (t.entry_datetime # None /\ t.exit_datetime # None)
        => t.duration = Some(t.exit_datetime[1] - t.entry_datetime[1])

\* a trade saved from the form that submitted duration 7 is stored with the
\* duration of its two timestamps
C14_Witness ==
    \E t \in ledger :
        /\ t.profit_loss = FormTypedPnl.profit_loss
        /\ t.entry_datetime = FormTypedPnl.entry_datetime
        /\ t.exit_datetime = FormTypedPnl.exit_datetime
        /\ t.duration # FormTypedPnl.duration
        /\ t.duration = Some(Tick(3, 0) - Tick(2, 1))

(* C15 *)

\* C15: a strategy_delete step that removes strategy pk keeps every trade,
\* changes no field of a trade other than its strategy reference, and
\* leaves the trades that referenced pk without a strategy.
C15_StrategyDeleteDetaches ==
    [][ \A u \in Users, pk \in 1..MaxStrategies :
          (StrategyDelete(u, pk) /\ strategies' # strategies)
          => /\ {t.id : t \in ledger'} = {t.id : t \in ledger}
             /\ \A a \in ledger, b \in ledger' :
                    a.id = b.id
                    => /\ [b EXCEPT !.strategy = a.strategy] = a
                       /\ b.strategy = IF a.strategy = Some(pk) THEN None
                                       ELSE a.strategy ]_vars

\* the trade imported under strategy 1 is in the ledger without a strategy
\* and strategy 1 is gone
C15_Witness ==
    /\ req[1].strategy = Some(1)
    /\ req[1].trades_count = 1
    /\ nextId = 2
    /\ \A s \in strategies : s.id # 1
    /\ \E t \in ledger : t.id = 1 /\ t.strategy = None /\ t.user = req[1].user

(* C16 *)

\* C16: every trade of the ledger that references a strategy references an
\* existing strategy of the trade's own owner.
C16_StrategyOfSameOwner ==
    \A t \in ledger :
        t.strategy # None
        => \E s \in strategies : s.id = t.strategy[1] /\ s.user = t.user

\* the trade imported by u1 now belongs to superuser u2 and references a
\* strategy: a superuser edited it
C16_Witness ==
    /\ req[1].user = "u1"
    /\ req[1].trades_count = 1
    /\ nextId = 2
    /\ \E t \in ledger : t.id = 1 /\ t.user = "u2" /\ t.strategy # None

(* C17 *)

\* the trades of a strategy the statistics are meant to cover: those with
\* an exit timestamp
Qualifying(strategy_id) ==
    {t \in TradesOfStrategy(strategy_id) : t.exit_datetime # None}

\* price moved in favour of the trade
FavourableMove(t) ==
    /\ t.exit_price # None
    /\ \/ t.trade_type = "LONG" /\ t.exit_price[1].v > t.entry_price[1].v
       \/ t.trade_type = "SHORT" /\ t.exit_price[1].v < t.entry_price[1].v

SameRatio(a, b) == a.num * b.den = b.num * a.den

\* every trade of the strategy is closed
AllClosed(strategy_id) == Qualifying(strategy_id) = TradesOfStrategy(strategy_id)

\* C17: for a strategy whose trades are all closed, win_rate is 100 * (number
\* of trades with a favourable price move) / nb_trades, and 0 without
\* trades, whatever the commission and the stored profit_loss.
C17_WinRateByPriceMove ==
    \A u \in Users : \A strategy_id \in OwnStrategies(u) :
        AllClosed(strategy_id)
        => LET q == Qualifying(strategy_id)
               wins == Cardinality({t \in q : FavourableMove(t)})
           IN  SameRatio(stats_view(u, strategy_id).win_rate,
                         WinRate(wins, Cardinality(q)))

(* C18 *)

RECURSIVE SumFormula(_)
SumFormula(trades) ==
    IF trades = {} THEN 0
    ELSE LET t == CHOOSE x \in trades : TRUE
         IN  (IF t.exit_price = None THEN 0 ELSE PnlFormula(t))
             + SumFormula(trades \ {t})

\* C18: for a strategy whose trades are all closed, total_profit is the sum
\* over its trades of (exit_price - entry_price) * quantity * sign -
\* commission.
C18_TotalProfitByFormula ==
    \A u \in Users : \A strategy_id \in OwnStrategies(u) :
        AllClosed(strategy_id)
        => stats_view(u, strategy_id).total_profit
               = SumFormula(Qualifying(strategy_id))

(* C19 *)

\* C19: nb_trades counts exactly the trades of the chosen strategy that have
\* an exit timestamp, and the statistics are those of these trades alone:
\* a trade without exit timestamp changes no figure and no chart point.
C19_OnlyClosedTradesCount ==
    \A u \in Users : \A strategy_id \in OwnStrategies(u) :
        /\ stats_view(u, strategy_id).nb_trades
               = Cardinality(Qualifying(strategy_id))
        /\ stats_view(u, strategy_id) = Statistics(Qualifying(strategy_id))

(* C20 *)

\* the calendar days on which trades of the set closed
ExitDays(trades) == {DateOf(t.exit_datetime[1]) : t \in trades}

\* the calendar day a chart label falls on
LabelDay(label) == DateOf(label.v)

\* C20: for a strategy whose trades are all closed, the chart has one point
\* per distinct exit day, in ascending order of day, and the value at day d
\* is the sum of the stored profit_loss of the trades that closed on a day
\* <= d.
C20_EquityCurveByExitDay ==
    \A u \in Users : \A strategy_id \in OwnStrategies(u) :
        AllClosed(strategy_id)
        => LET q == Qualifying(strategy_id)
               days == ExitDays(q)
           IN  \A chart \in stats_view(u, strategy_id).charts :
                   /\ Len(chart.x) = Cardinality(days)
                   /\ \A i \in 1..Len(chart.x) :
                          /\ chart.x[i].kind = "datetime"
                          /\ LabelDay(chart.x[i]) \in days
                          /\ \A j \in 1..Len(chart.x) :
                                 i < j => LabelDay(chart.x[i]) < LabelDay(chart.x[j])
                          /\ chart.y[i] =
                                 SumProfitLoss({t \in q : DateOf(t.exit_datetime[1])
                                                              <= LabelDay(chart.x[i])})


(* C21 *)

\* the texts of the date cells of the row pool
DateCells ==
    {DateCell(layout, LayoutTick(layout, 2, 1), deco) :
        layout \in DateLayouts, deco \in BOOLEAN}

\* the parsers in the order of the attempts: epoch, ISO-8601, then the fixed
\* formats as listed
RECURSIVE FirstSuccess(_)
FirstSuccess(attempts) ==
    IF attempts = <<>> THEN None
    ELSE IF Head(attempts) # None THEN Head(attempts)
    ELSE FirstSuccess(Tail(attempts))

AttemptsInOrder(s) ==
    <<try_parse_epoch(s), try_parse_iso(s)>>
    \o [i \in 1..Len(KNOWN_DT_FORMATS) |-> Strptime(s, KNOWN_DT_FORMATS[i])]

\* C21: the date parser accepts "2024-05-10 14:32:01.123456",
\* "2024-05-10T14:32:01Z", "10/05/2024 14:32:01" and the decorated
\* "BP2024-05-10 14:32:01EP"; it tries epoch, then ISO-8601, then the fixed
\* formats in listed order and the first success wins; it returns null for
\* empty, blank or unparseable text; and an import row whose Entry DateTime
\* and Exit DateTime are each in a format the parser accepts is not rejected
\* for its dates.
C21_AcceptedDatesImported ==
    [][ /\ parse_custom_datetime(DateCell("frac", Tick(2, 1), FALSE)) = Some(Tick(2, 1))
        /\ parse_custom_datetime(DateCell("iso_z", Tick(2, 1), FALSE)) = Some(Tick(2, 1))
        /\ parse_custom_datetime(DateCell("dmy", Tick(2, 1), FALSE)) = Some(Tick(2, 1))
        /\ parse_custom_datetime(DateCell("plain", Tick(2, 1), TRUE)) = Some(Tick(2, 1))
        /\ \A c \in DateCells :
              /\ c.fmt \in {"empty", "blank", "bad"} => parse_custom_datetime(c) = None
              /\ c.fmt \notin {"empty", "blank"}
                    => parse_custom_datetime(c) = FirstSuccess(AttemptsInOrder(clean_str(c)))
        /\ \A w \in Requests :
              ( /\ RowStep(w)
                /\ CurrentRow(w).n >= Len(upload.file.headers)
                /\ parse_custom_datetime(CurrentRow(w).Entry) # None
                /\ parse_custom_datetime(CurrentRow(w).Exit) # None )
              => RowDates(w).ok ]_vars

(* C22 *)

\* the profile of the student names c as the coach
Paired(student, c) ==
    \E p \in profiles : p.user = student /\ p.coach = Some(c)

TradeOwner(pk) == (CHOOSE t \in ledger : t.id = pk).user

\* C22: a coach is shown a trade of another user, or stores a comment on
\* it, only if the profile of that user names this coach as their coach;
\* this holds for trade_detail, coach_student_trades and add_trade_comment.
\* (A superuser reads every trade as superuser.)
C22_CoachReadsOnlyPairedStudents ==
    [][ /\ \A e \in shown' \ shown :
              ( /\ e.viewer # TradeOwner(e.trade)
                /\ e.viewer \notin Superusers )
              => Paired(TradeOwner(e.trade), e.viewer)
        /\ \A c \in comments' \ comments :
              ( /\ c.coach # TradeOwner(c.trade)
                /\ c.coach \notin Superusers )
              => Paired(TradeOwner(c.trade), c.coach) ]_vars

(* C23 *)

Accepted(student, c) ==
    \E r \in coach_requests :
        r.student = student /\ r.coach = c /\ r.accepted = Some(TRUE)

\* handler h is coach c storing the pairing of an accepted request that the
\* student sent to c
AnswersOwnRequest(h, student, c) ==
    /\ proc[h].view = "coach_respond_request"
    /\ proc[h].pc = "link"
    /\ proc[h].user = c
    /\ proc[h].answer = "accept"
    /\ \E r \in coach_requests :
          r.id = proc[h].req_id /\ r.student = student /\ r.coach = c

\* C23: in every state reached through the views, profile.coach = c of a
\* student implies that a CoachRequest from that student to c exists with
\* accepted = True, and the pairing is established only by c answering its
\* own request.
C23_PairingHasAcceptedRequest ==
    [][ \A p \in profiles' :
          /\ p.coach # None
                => \E r \in coach_requests' :
                      /\ r.student = p.user /\ r.coach = p.coach[1]
                      /\ r.accepted = Some(TRUE)
          /\ (p.coach # None /\ p \notin profiles)
                => \E h \in Handlers :
                      AnswersOwnRequest(h, p.user, p.coach[1]) /\ proc'[h] # proc[h]
      ]_vars

(* C28 *)

HasCoach(student) == \E p \in profiles : p.user = student /\ p.coach # None

\* C28: at every moment a student has at most one pending CoachRequest,
\* and a student who has a coach has none, under any interleaving of
\* choose_coach and coach_respond_request requests.
C28_AtMostOnePending ==
    \A student \in Members :
        /\ Cardinality(PendingOf(student)) <= 1
        /\ HasCoach(student) => PendingOf(student) = {}

(* C29 *)

\* C29: a student who is not a coach, has no coach and no pending request
\* and submits a valid coach selection ends with a pending CoachRequest to
\* that coach and no error, also when an earlier request to the same coach
\* was refused.  (Stated for a submission that no other request overlaps.)
C29_ValidSelectionIsSent ==
    [][ \A h \in Handlers :
          ( /\ proc[h].view = "choose_coach" /\ proc[h].pc = "create"
            /\ proc'[h].pc = "done"
            /\ \A g \in Handlers \ {h} : Free(g)
            /\ ~ProfileOf(proc[h].user).is_coach
            /\ ~HasCoach(proc[h].user)
            /\ PendingOf(proc[h].user) = {} )
          => /\ proc'[h].outcome = "sent"
             /\ \E r \in coach_requests' :
                   /\ r.student = proc[h].user /\ r.coach = proc[h].coach
                   /\ r.accepted = None ]_vars

(* C24 *)

HasNote(pk) == \E t \in ledger : t.id = pk /\ t.note # ""

\* C24: update_trade_note only adds a note when none exists: a call for a
\* trade whose note is non-empty changes neither the note nor any other
\* field of the trade (nor anything else that is stored).
C24_NoteWrittenOnce ==
    [][ \A u \in Clients, pk \in TradeIds, note \in NotePool :
          (HasNote(pk) /\ UpdateTradeNote(u, pk, note)) => UNCHANGED vars ]_vars

\* a trade received its note through update_trade_note and further calls
\* of the view can follow
C24_Witness ==
    \E t \in ledger : t.note = "note" /\ t.id \in TradeIds

(* C26 *)

\* request user u is the owner of trade pk or a superuser
OwnerOrSuperuser(u, pk) ==
    \E t \in ledger : t.id = pk /\ (t.user = u \/ u \in Superusers)

TradeRow(rows, pk) == {t \in rows : t.id = pk}

\* C26: a request to trade_edit, trade_delete, update_trade_note or
\* update_trade_strategy by a client that is neither the owner of the trade
\* nor a superuser (another user, or an anonymous client) leaves the trade
\* as it is stored: no field changed, not deleted.
C26_OnlyOwnerOrSuperuserWrites ==
    [][ ledger' # ledger =>
          \A u \in Clients, pk \in TradeIds :
            ( /\ ~OwnerOrSuperuser(u, pk)
              /\ \/ \E form \in FormPool, strat \in StrategyChoices :
                       TradeEdit(u, pk, form, strat)
                 \/ TradeDelete(u, pk)
                 \/ \E strat \in StrategyChoices : UpdateTradeStrategy(u, pk, strat)
                 \/ \E note \in NotePool : UpdateTradeNote(u, pk, note) )
            => TradeRow(ledger', pk) = TradeRow(ledger, pk) ]_vars

(* C27 *)

\* C27: trade_edit never changes the owner of a trade: after a successful
\* edit by the owner or a superuser the trade's user is the one before.
C27_EditKeepsOwner ==
    [][ ledger' # ledger =>
          \A u \in Users, pk \in TradeIds, form \in FormPool,
             strat \in StrategyChoices :
            TradeEdit(u, pk, form, strat)
            => \A old \in TradeRow(ledger, pk), new \in TradeRow(ledger', pk) :
                  new.user = old.user ]_vars

(* C30 *)

\* C30: when trade_new answers with the error that all uploaded files must
\* be images, the request has persisted nothing: no Trade and no Screenshot
\* was created by it.
C30_RejectedUploadStoresNothing ==
    [][ \A u \in Clients, form \in FormPool, strat \in StrategyChoices,
           files \in FileLists :
          ( /\ TradeNewUpload(u, form, strat, files)
            /\ response' = Response("trade_new", "not_images") )
          => /\ ledger' = ledger
             /\ screenshots' = screenshots ]_vars

(* C25 *)

ExactlyOneProfile(u) == Cardinality(ProfilesOf(u)) = 1

\* the same after the step
ExactlyOneProfileNext(u) == Cardinality({p \in profiles' : p.user = u}) = 1

FreeNext(h) == proc'[h].pc \in {"idle", "done"}

\* C25: no user ever has two profiles; when the handler that runs after
\* the creation (or a save) of a User has returned, exactly one Profile
\* exists for that user, also when another handler or the backfill creates
\* it at the same time; when the backfill has returned, every user it found
\* without profile has exactly one, and so has every account once no
\* handler is running; a backfill that runs when every account has a
\* profile creates none.
C25_OneProfilePerUser ==
    [][ /\ \A u \in Members : Cardinality({p \in profiles' : p.user = u}) <= 1
        /\ \A h \in Handlers :
              /\ (proc'[h].pc = "done" /\ proc'[h].view \in {"user_created", "user_saved"})
                    => ExactlyOneProfileNext(proc'[h].user)
              /\ (proc'[h].pc = "done" /\ proc'[h].view = "backfill")
                    => /\ \A u \in proc'[h].to_create : ExactlyOneProfileNext(u)
                       /\ (\A g \in Handlers : FreeNext(g))
                             => \A u \in accounts' : ExactlyOneProfileNext(u)
              /\ ( /\ Free(h) /\ proc'[h].view = "backfill" /\ proc'[h] # proc[h]
                   /\ \A u \in accounts : ExactlyOneProfile(u) )
                    => /\ proc'[h].pc = "done"
                       /\ profiles' = profiles ]_vars

\* two writers met on the profile of one user: one created it, the other
\* ran into the unique index; and a backfill has created the profiles of
\* the users it found without one
C25_Witness ==
    /\ \E h, g \in Handlers :
          /\ proc[h].pc = "done" /\ proc[h].outcome = "created"
          /\ proc[g].pc = "done" /\ proc[g].outcome = "conflict"
          /\ \/ proc[h].user = proc[g].user
             \/ proc[h].view = "backfill" /\ proc[g].user \in proc[h].to_create
    /\ \A u \in accounts : ExactlyOneProfile(u)
====
